---- MODULE Spec2Model ----
(***************************************************************************)
(* Lifecycle of the go-seele node container (package node): Register,      *)
(* Start, Stop and Restart of a Node, with the p2p server, the registered  *)
(* services and the two RPC listeners as the collaborators it drives.      *)
(*                                                                         *)
(* Callers are concurrent goroutines.  Start and Stop are modelled         *)
(* statement by statement; a caller's position is pc[t].  The p2p server,  *)
(* the services and net.Listen are outside the package: each of their      *)
(* calls is a nondeterministic choice of the result the caller reads.      *)
(***************************************************************************)
EXTENDS Integers, Sequences, FiniteSets, TLC

\* ---------------------------------------------------------------- bounds
\* Longest service list a caller builds with Register.
MaxServices == 3
\* Number of p2p servers the node creates (Start calls that pass the
\* running check) in one behaviour.
MaxStarts == 2

\* The goroutines that call the node.
Callers == {1, 2}
\* The service objects callers hold; a caller registers an object that is
\* not in the list already.  Objects 1 and 2 are instances of one Go type,
\* objects 3 and 4 of another.
Svc == {1, 2, 3, 4}

\* reflect.TypeOf(service)
TypeOf(s) == IF s \in {1, 2} THEN "TypeA" ELSE "TypeB"

\* service.APIs(): one namespace per service; services 1 and 4 declare the
\* same namespace.
NamespaceOf(s) == IF s = 2 THEN "pool" ELSE IF s = 3 THEN "debug" ELSE "chain"
APIs(s) == << [Namespace |-> NamespaceOf(s), Service |-> s] >>

\* service.Protocols(): two, one or no protocol per service.
Protocols(s) ==
    IF s = 1 THEN <<"p1a", "p1b">> ELSE IF s = 2 THEN <<"p2">>
    ELSE IF s = 3 THEN <<>> ELSE <<"p4">>

\* ---------------------------------------------------------------- errors
NoErr == [kind |-> "nil"]
ErrNodeRunning == [kind |-> "ErrNodeRunning"]
ErrNodeStopped == [kind |-> "ErrNodeStopped"]
ErrServiceStartFailed == [kind |-> "ErrServiceStartFailed"]
\* the error service s returns from a failing Start
SvcStartErr(s) == [kind |-> "SvcStartErr", svc |-> s]
\* the error service s returns from a failing Stop
SvcStopErr(s) == [kind |-> "SvcStopErr", svc |-> s]
\* the error of handler.RegisterName / httpServer.RegisterName
RegisterErr(ns) == [kind |-> "RegisterErr", ns |-> ns]
\* the error running.Start() returns when the p2p server cannot start
P2PStartErr == [kind |-> "P2PStartErr"]
\* the error of net.Listen
ListenErr(addr) == [kind |-> "ListenErr", addr |-> addr]
\* &StopError{Services: m}
StopError(m) == [kind |-> "StopError", Services |-> m]

VARIABLES
    server,      \* n.server: 0 is nil, otherwise the id of a p2p server
    services,    \* n.services
    lock,        \* n.lock: 0 is unlocked, otherwise the caller holding it
    nextId,      \* number of p2p servers created so far
    p2pRunning,  \* ids of the p2p servers started and not stopped
    started,     \* service objects whose last lifecycle call was a successful Start
    rpcLoops,    \* raw-socket accept loops spawned and still running
    httpLoops,   \* HTTP server loops spawned and still running
    pc,          \* per caller: position in the code
    op,          \* per caller: the method it called
    running,     \* per caller: Start's local `running`
    idx,         \* per caller: loop index i (1-based)
    jdx,         \* per caller: rollback index j (1-based)
    err,         \* per caller: the error Start is about to return
    stopErr,     \* per caller: Stop's local stopErr.Services
    stopRet,     \* per caller: what Restart's call of Stop returned
    protocols,   \* per caller: running.Protocols of Start's p2p server
    handler,     \* per caller: namespaces registered on startJSONRPC's handler
    httpServer,  \* per caller: namespaces registered on startHTTPRPC's httpServer
    conf,        \* the caller's Config, whose address it passed to New
    config,      \* n.config
    heap,        \* the backing arrays of the []string slices
    httpHosts,   \* whitehosts of the latest rpc.NewHTTPServer call (<<>>: none yet)
    exclusive,   \* whether the listen addresses admit one binding at a time
    accepted,    \* what the latest Accept of a raw-socket loop returned
    calls,       \* calls made on collaborators by the latest Register, Start or Stop
    entry,       \* the node as the latest Register, Start or Stop found it
    last         \* the latest return of Register, Start or Stop

nodeVars == <<server, services, nextId, p2pRunning, started, rpcLoops, httpLoops>>
vars == <<server, services, lock, nextId, p2pRunning, started, rpcLoops, httpLoops,
          pc, op, running, idx, jdx, err, stopErr, stopRet, protocols, handler,
          httpServer, conf, config, heap, httpHosts, exclusive, accepted,
          calls, entry, last>>

\* What no lifecycle function writes.
envVars == <<conf, config, heap, exclusive, accepted>>

\* What a caller can observe of the node and of its collaborators.
Snapshot == [server |-> server, services |-> services, nextId |-> nextId,
             p2pRunning |-> p2pRunning, started |-> started,
             rpcLoops |-> rpcLoops, httpLoops |-> httpLoops, arg |-> 0,
             undone |-> <<>>]

NoReturn == [t |-> 0, op |-> "none", fn |-> "none", ret |-> NoErr, final |-> FALSE,
             prev |-> NoErr]

\* The Config the caller builds: HTTPWhiteHost is a slice, held as the
\* address of its backing array in the heap.
CallerConfig == [RPCAddr |-> "rpc0", HTTPWhiteHost |-> 1]
CallerHeap == [a \in {1, 2} |-> IF a = 1 THEN <<"host0">> ELSE <<"host2">>]

\* New, lines 244-245: confCopy := *conf copies the struct, field by field;
\* a slice field is copied as the address of the same backing array.
ConfigCopy(c) == [RPCAddr |-> c.RPCAddr, HTTPWhiteHost |-> c.HTTPWhiteHost]

\* New (lines 242-253): services is empty, server is nil.  The node lives
\* where the listen addresses admit one binding at a time (excl) or where
\* nothing is known of net.Listen, which may succeed or fail at every call.
New(excl) ==
    /\ server = 0
    /\ services = <<>>
    /\ lock = 0
    /\ nextId = 0
    /\ p2pRunning = {}
    /\ started = {}
    /\ rpcLoops = 0
    /\ httpLoops = 0
    /\ pc = [t \in Callers |-> "idle"]
    /\ op = [t \in Callers |-> "none"]
    /\ running = [t \in Callers |-> 0]
    /\ idx = [t \in Callers |-> 0]
    /\ jdx = [t \in Callers |-> 0]
    /\ err = [t \in Callers |-> NoErr]
    /\ stopErr = [t \in Callers |-> {}]
    /\ stopRet = [t \in Callers |-> NoErr]
    /\ protocols = [t \in Callers |-> <<>>]
    /\ handler = [t \in Callers |-> {}]
    /\ httpServer = [t \in Callers |-> {}]
    /\ conf = CallerConfig
    /\ config = ConfigCopy(CallerConfig)
    /\ heap = CallerHeap
    /\ httpHosts = <<>>
    /\ exclusive = excl
    /\ accepted = "none"
    /\ calls = <<>>
    /\ entry = Snapshot
    /\ last = NoReturn

Init == New(FALSE)

\* The node on fixed listen addresses that admit one binding at a time.
InitExclusive == New(TRUE)

\* ------------------------------------------------------------------ lock
\* Mutant of LockFree: the functions do not take the lock.
LockFree_Always(t) == TRUE

\* n.lock.Lock() returns only when no caller holds the lock.
LockFree(t) == lock = 0

\* Mutant of RestartContinues: Restart calls Start whatever Stop returned.
RestartContinues_Always(o, fn, r) == o = "Restart" /\ fn = "Stop"

\* Restart (lines 435-443): Start is called only if Stop returned nil.
RestartContinues(o, fn, r) == o = "Restart" /\ fn = "Stop" /\ r = NoErr

\* Function fn, called by t as part of method o, returns r: the deferred
\* n.lock.Unlock() runs, the locals die, and a Restart goes on or returns.
Return(t, o, fn, r) ==
    /\ lock' = 0
    /\ running' = [running EXCEPT ![t] = 0]
    /\ idx' = [idx EXCEPT ![t] = 0]
    /\ jdx' = [jdx EXCEPT ![t] = 0]
    /\ err' = [err EXCEPT ![t] = NoErr]
    /\ stopErr' = [stopErr EXCEPT ![t] = {}]
    /\ protocols' = [protocols EXCEPT ![t] = <<>>]
    /\ handler' = [handler EXCEPT ![t] = {}]
    /\ httpServer' = [httpServer EXCEPT ![t] = {}]
    /\ pc' = [pc EXCEPT ![t] = IF RestartContinues(o, fn, r) THEN "gap" ELSE "idle"]
    /\ stopRet' = [stopRet EXCEPT ![t] = IF RestartContinues(o, fn, r) THEN r ELSE NoErr]
    /\ last' = [t |-> t, op |-> o, fn |-> fn, ret |-> r,
                final |-> (pc'[t] = "idle"),
                prev |-> IF o = "Restart" /\ fn = "Start" THEN stopRet[t] ELSE NoErr]

\* The services that the function that has just returned started and stopped
\* again: those a failed Start had started, in the order it started them.
RolledBack ==
    IF last.fn = "Start" /\ last.ret \notin {NoErr, ErrNodeRunning}
    THEN LET ok == SelectSeq(calls, LAMBDA c : c[1] = "svc.Start" /\ c[3])
         IN [k \in 1..Len(ok) |-> ok[k][2]]
    ELSE <<>>

\* A function is entered with argument a (0 for none): the record of calls
\* starts afresh, and what the function before it rolled back is kept.
Enter(a) ==
    /\ calls' = <<>>
    /\ entry' = [Snapshot EXCEPT !.arg = a, !.undone = RolledBack]

\* -------------------------------------------------------------- Register
\* Mutant of RegisterRejected: Register does not look at n.server.
RegisterRejected_Never(t) == FALSE

\* Register, line 260: the running check.
RegisterRejected(t) == server # 0

\* Register (lines 256-266).
Register(t, s) ==
    /\ UNCHANGED <<envVars, httpHosts>>
    /\ pc[t] = "idle"
    /\ LockFree(t)
    /\ op' = [op EXCEPT ![t] = "Register"]
    /\ Enter(s)
    /\ IF RegisterRejected(t)
       THEN /\ UNCHANGED services
            /\ Return(t, "Register", "Register", ErrNodeRunning)
       ELSE /\ Len(services) < MaxServices
            /\ \A k \in 1..Len(services) : services[k] # s
            /\ services' = Append(services, s)
            /\ Return(t, "Register", "Register", NoErr)
    /\ UNCHANGED <<server, nextId, p2pRunning, started, rpcLoops, httpLoops>>

\* ----------------------------------------------------------------- Start
\* Mutant of StartRejected: Start does not look at n.server.
StartRejected_Never(t) == FALSE

\* Start, line 273: the running check.
StartRejected(t) == server # 0

\* Mutant of P2PStop: the p2p server is left running.
P2PStop_Forgotten(id) == p2pRunning

\* running.Stop() / n.server.Stop() (lines 295, 308, 421): the p2p servers
\* still running after server id is stopped.
P2PStop(id) == p2pRunning \ {id}

\* Start, lines 279-281: the protocols of all services, in registration order.
RECURSIVE ProtocolsOf(_)
ProtocolsOf(svcs) ==
    IF svcs = <<>> THEN <<>> ELSE Protocols(Head(svcs)) \o ProtocolsOf(Tail(svcs))

\* Mutant of ServerProtocols: each service's protocols are put in front.
RECURSIVE ProtocolsReversed(_)
ProtocolsReversed(svcs) ==
    IF svcs = <<>> THEN <<>> ELSE ProtocolsReversed(Tail(svcs)) \o Protocols(Head(svcs))
ServerProtocols_Prepended(t) == ProtocolsReversed(services)

\* Start, lines 278-281: running.Protocols when running.Start() is called.
ServerProtocols(t) == ProtocolsOf(services)

\* Start, lines 270-281: lock, the running check, the new p2p.Server and
\* its protocols.
StartBegin(t, o) ==
    /\ UNCHANGED <<envVars, httpHosts>>
    /\ LockFree(t)
    /\ Enter(0)
    /\ IF StartRejected(t)
       THEN /\ Return(t, o, "Start", ErrNodeRunning)
            /\ UNCHANGED nextId
       ELSE /\ nextId < MaxStarts
            /\ nextId' = nextId + 1
            /\ lock' = t
            /\ running' = [running EXCEPT ![t] = nextId + 1]
            /\ pc' = [pc EXCEPT ![t] = "Start.p2p"]
            /\ protocols' = [protocols EXCEPT ![t] = ServerProtocols(t)]
            /\ last' = NoReturn
            /\ UNCHANGED <<idx, jdx, err, stopErr, stopRet, handler, httpServer>>
    /\ UNCHANGED <<server, services, p2pRunning, started, rpcLoops, httpLoops>>

\* A caller calls n.Start().
CallStart(t) ==
    /\ pc[t] = "idle"
    /\ op' = [op EXCEPT ![t] = "Start"]
    /\ StartBegin(t, "Start")

\* Mutant of StartP2PError: the p2p server's own error is returned.
StartP2PError_Own(e) == e

\* Start, lines 283-285: what Start returns when running.Start() fails with e.
StartP2PError(e) == ErrServiceStartFailed

\* Start, lines 283-285: running.Start().
StartP2P(t) ==
    /\ UNCHANGED <<envVars, httpHosts>>
    /\ pc[t] = "Start.p2p"
    /\ \E ok \in BOOLEAN :
        /\ calls' = Append(calls, <<"p2p.Start", running[t], ok>>)
        /\ IF ok
           THEN /\ p2pRunning' = p2pRunning \cup {running[t]}
                /\ idx' = [idx EXCEPT ![t] = 1]
                /\ pc' = [pc EXCEPT ![t] = "Start.services"]
                /\ UNCHANGED <<lock, running, jdx, err, stopErr, stopRet, last,
                               protocols, handler, httpServer>>
           ELSE /\ UNCHANGED p2pRunning
                /\ Return(t, op[t], "Start", StartP2PError(P2PStartErr))
    /\ UNCHANGED <<server, services, nextId, started, rpcLoops, httpLoops, op, entry>>

\* Start, lines 288-289 and 299: service.Start(running) of the i-th service.
StartService(t) ==
    /\ UNCHANGED <<envVars, httpHosts>>
    /\ pc[t] = "Start.services"
    /\ IF idx[t] > Len(services)
       THEN /\ pc' = [pc EXCEPT ![t] = "Start.rpc"]
            /\ UNCHANGED <<started, idx, jdx, err, calls>>
       ELSE \E ok \in BOOLEAN :
            LET s == services[idx[t]] IN
            /\ calls' = Append(calls, <<"svc.Start", s, ok>>)
            /\ IF ok
               THEN /\ started' = started \cup {s}
                    /\ idx' = [idx EXCEPT ![t] = idx[t] + 1]
                    /\ UNCHANGED <<pc, jdx, err>>
               ELSE /\ err' = [err EXCEPT ![t] = SvcStartErr(s)]
                    /\ jdx' = [jdx EXCEPT ![t] = 1]
                    /\ pc' = [pc EXCEPT ![t] = "Start.undo"]
                    /\ UNCHANGED <<started, idx>>
    /\ UNCHANGED <<server, services, lock, nextId, p2pRunning, rpcLoops, httpLoops,
                   op, running, stopErr, stopRet, entry, last,
                   protocols, handler, httpServer>>

\* Mutant of ServicesAfterRollback: a failed Start clears the list as Stop does.
ServicesAfterRollback_Cleared == <<>>

\* Start, lines 289-297 and 301-310: the rollback of a failed Start stops
\* services and assigns nothing to n.services.
ServicesAfterRollback == services

\* Mutant of UndoCount: the rollback also stops the service that failed.
UndoCount_ThroughFailed(t) == idx[t]

\* Start, line 290: the services the rollback of a failed service start stops.
UndoCount(t) == idx[t] - 1

\* Start, lines 290-297: stop services 0..i-1, stop the p2p server, return err.
StartUndo(t) ==
    /\ UNCHANGED <<envVars, httpHosts>>
    /\ pc[t] = "Start.undo"
    /\ IF jdx[t] <= UndoCount(t)
       THEN \E ok \in BOOLEAN :
            LET s == services[jdx[t]] IN
            /\ calls' = Append(calls, <<"svc.Stop", s, ok>>)
            /\ started' = started \ {s}
            /\ jdx' = [jdx EXCEPT ![t] = jdx[t] + 1]
            /\ UNCHANGED <<services, lock, p2pRunning, pc, running, idx, err, stopErr, stopRet, last,
                           protocols, handler, httpServer>>
       ELSE /\ calls' = Append(calls, <<"p2p.Stop", running[t], TRUE>>)
            /\ p2pRunning' = P2PStop(running[t])
            /\ services' = ServicesAfterRollback
            /\ UNCHANGED started
            /\ Return(t, op[t], "Start", err[t])
    /\ UNCHANGED <<server, nextId, rpcLoops, httpLoops, op, entry>>

\* startRPC, lines 320-323: the APIs of all services, in registration order.
RECURSIVE ApisOf(_)
ApisOf(svcs) ==
    IF svcs = <<>> THEN <<>> ELSE APIs(Head(svcs)) \o ApisOf(Tail(svcs))

\* RegisterName over apis in order (lines 341-347, 377-383): 0 if every
\* namespace registers, otherwise the index of the first api whose namespace
\* is already registered on the handler.
FirstDuplicate(apis) ==
    LET dup == {k \in 1..Len(apis) :
                   \E h \in 1..(k - 1) : apis[h].Namespace = apis[k].Namespace}
    IN IF dup = {} THEN 0 ELSE CHOOSE k \in dup : \A m \in dup : k <= m

\* Mutant of Registered: the registration loop stops one api short.
Registered_OneShort(apis, d) ==
    {apis[k].Namespace : k \in 1..((IF d = 0 THEN Len(apis) ELSE d - 1) - 1)}

\* The namespaces on a handler after the loop over apis (lines 341-347,
\* 377-383) that fails at api d, or registers them all if d is 0.
Registered(apis, d) ==
    {apis[k].Namespace : k \in 1..(IF d = 0 THEN Len(apis) ELSE d - 1)}

\* Mutant of ListenResults: an address in use can be bound again.
ListenResults_Rebind(bound) == BOOLEAN

\* net.Listen (lines 354, 390) on an address with `bound` listeners of this
\* node still open: it may succeed or fail, and fails for certain when the
\* address admits one binding and is bound.
ListenResults(bound) == IF exclusive /\ bound > 0 THEN {FALSE} ELSE BOOLEAN

\* startRPC step 1, lines 325-328 with startJSONRPC, lines 339-372.
StartJSONRPC(t) ==
    /\ UNCHANGED <<envVars, httpHosts>>
    /\ pc[t] = "Start.rpc"
    /\ LET apis == ApisOf(services)
           d == FirstDuplicate(apis)
       IN /\ handler' = [handler EXCEPT ![t] = Registered(apis, d)]
          /\ IF d # 0
             THEN /\ calls' = Append(calls, <<"rpc.RegisterName", apis[d].Service, FALSE>>)
                  /\ err' = [err EXCEPT ![t] = RegisterErr(apis[d].Namespace)]
                  /\ jdx' = [jdx EXCEPT ![t] = 1]
                  /\ pc' = [pc EXCEPT ![t] = "Start.rpcundo"]
                  /\ UNCHANGED rpcLoops
             ELSE \E ok \in ListenResults(rpcLoops) :
                  /\ calls' = Append(calls, <<"rpc.Listen", 0, ok>>)
                  /\ IF ok
                     THEN /\ rpcLoops' = rpcLoops + 1
                          /\ pc' = [pc EXCEPT ![t] = "Start.http"]
                          /\ UNCHANGED <<err, jdx>>
                     ELSE /\ err' = [err EXCEPT ![t] = ListenErr("RPCAddr")]
                          /\ jdx' = [jdx EXCEPT ![t] = 1]
                          /\ pc' = [pc EXCEPT ![t] = "Start.rpcundo"]
                          /\ UNCHANGED rpcLoops
    /\ UNCHANGED <<server, services, lock, nextId, p2pRunning, started, httpLoops,
                   op, running, idx, stopErr, stopRet, entry, last,
                   protocols, httpServer>>

\* startRPC step 2, lines 330-335 with startHTTPRPC, lines 375-398.
StartHTTPRPC(t) ==
    /\ UNCHANGED envVars
    /\ pc[t] = "Start.http"
    /\ LET apis == ApisOf(services)
           d == FirstDuplicate(apis)
       IN /\ httpHosts' = heap[config.HTTPWhiteHost]
          /\ httpServer' = [httpServer EXCEPT ![t] = Registered(apis, d)]
          /\ IF d # 0
             THEN /\ calls' = Append(calls, <<"http.RegisterName", apis[d].Service, FALSE>>)
                  /\ err' = [err EXCEPT ![t] = RegisterErr(apis[d].Namespace)]
                  /\ jdx' = [jdx EXCEPT ![t] = 1]
                  /\ pc' = [pc EXCEPT ![t] = "Start.rpcundo"]
                  /\ UNCHANGED httpLoops
             ELSE \E ok \in ListenResults(httpLoops) :
                  /\ calls' = Append(calls, <<"http.Listen", 0, ok>>)
                  /\ IF ok
                     THEN /\ httpLoops' = httpLoops + 1
                          /\ pc' = [pc EXCEPT ![t] = "Start.done"]
                          /\ UNCHANGED <<err, jdx>>
                     ELSE /\ err' = [err EXCEPT ![t] = ListenErr("HTTPAddr")]
                          /\ jdx' = [jdx EXCEPT ![t] = 1]
                          /\ pc' = [pc EXCEPT ![t] = "Start.rpcundo"]
                          /\ UNCHANGED httpLoops
    /\ UNCHANGED <<server, services, lock, nextId, p2pRunning, started, rpcLoops,
                   op, running, idx, stopErr, stopRet, entry, last,
                   protocols, handler>>

\* Mutant of RPCUndoCount: the rollback stops no service.
RPCUndoCount_None(t) == 0

\* Mutant of RPCUndoCount: the rollback misses the last service.
RPCUndoCount_SkipLast(t) == Len(services) - 1

\* Start, line 303: the services the rollback of a failed RPC bootstrap stops.
RPCUndoCount(t) == Len(services)

\* Start, lines 302-311: startRPC failed; stop every service, stop the p2p
\* server, return the RPC error.
StartRPCUndo(t) ==
    /\ UNCHANGED <<envVars, httpHosts>>
    /\ pc[t] = "Start.rpcundo"
    /\ IF jdx[t] <= RPCUndoCount(t)
       THEN \E ok \in BOOLEAN :
            LET s == services[jdx[t]] IN
            /\ calls' = Append(calls, <<"svc.Stop", s, ok>>)
            /\ started' = started \ {s}
            /\ jdx' = [jdx EXCEPT ![t] = jdx[t] + 1]
            /\ UNCHANGED <<services, lock, p2pRunning, pc, running, idx, err, stopErr, stopRet, last,
                           protocols, handler, httpServer>>
       ELSE /\ calls' = Append(calls, <<"p2p.Stop", running[t], TRUE>>)
            /\ p2pRunning' = P2PStop(running[t])
            /\ services' = ServicesAfterRollback
            /\ UNCHANGED started
            /\ Return(t, op[t], "Start", err[t])
    /\ UNCHANGED <<server, nextId, rpcLoops, httpLoops, op, entry>>

\* Start, lines 313-315: n.server = running; return nil.
StartDone(t) ==
    /\ UNCHANGED <<envVars, httpHosts>>
    /\ pc[t] = "Start.done"
    /\ server' = running[t]
    /\ Return(t, op[t], "Start", NoErr)
    /\ UNCHANGED <<services, nextId, p2pRunning, started, rpcLoops, httpLoops,
                   op, calls, entry>>

\* ------------------------------------------------------------------ Stop
\* Mutant of StopRejected: Stop does not look at n.server.
StopRejected_Never(t) == FALSE

\* Stop, line 405: the stopped check.
StopRejected(t) == server = 0

\* Stop, lines 402-412: lock, the stopped check, the empty StopError.
StopBegin(t, o) ==
    /\ UNCHANGED <<envVars, httpHosts>>
    /\ LockFree(t)
    /\ Enter(0)
    /\ IF StopRejected(t)
       THEN Return(t, o, "Stop", ErrNodeStopped)
       ELSE /\ lock' = t
            /\ stopErr' = [stopErr EXCEPT ![t] = {}]
            /\ idx' = [idx EXCEPT ![t] = 1]
            /\ pc' = [pc EXCEPT ![t] = "Stop.services"]
            /\ last' = NoReturn
            /\ UNCHANGED <<running, jdx, err, stopRet, protocols, handler, httpServer>>
    /\ UNCHANGED nodeVars

\* A caller calls n.Stop().
CallStop(t) ==
    /\ pc[t] = "idle"
    /\ op' = [op EXCEPT ![t] = "Stop"]
    /\ StopBegin(t, "Stop")

\* Stop, line 416: the key under which a failing service is reported.
StopKey(s) == TypeOf(s)

\* Mutant of MapPut: an entry already present under the key is kept.
MapPut_KeepFirst(m, key, e) ==
    IF \E p \in m : p[1] = key THEN m ELSE m \cup {<<key, e>>}

\* stopErr.Services[key] = e: a Go map keeps one value per key.
MapPut(m, key, e) == {p \in m : p[1] # key} \cup {<<key, e>>}

\* Stop, lines 414-418: service.Stop() of the i-th service.
StopService(t) ==
    /\ UNCHANGED <<envVars, httpHosts>>
    /\ pc[t] = "Stop.services"
    /\ idx[t] <= Len(services)
    /\ \E ok \in BOOLEAN :
        LET s == services[idx[t]] IN
        /\ calls' = Append(calls, <<"svc.Stop", s, ok>>)
        /\ started' = started \ {s}
        /\ stopErr' = [stopErr EXCEPT ![t] =
                          IF ok THEN @ ELSE MapPut(@, StopKey(s), SvcStopErr(s))]
        /\ idx' = [idx EXCEPT ![t] = idx[t] + 1]
    /\ UNCHANGED <<server, services, lock, nextId, p2pRunning, rpcLoops, httpLoops,
                   pc, op, running, jdx, err, stopRet, entry, last,
                   protocols, handler, httpServer>>

\* Mutant of StopResult: the StopError is returned even when it is empty.
StopResult_Always(m) == StopError(m)

\* Stop, lines 427-431: the StopError if it has entries, otherwise nil.
StopResult(m) == IF Cardinality(m) > 0 THEN StopError(m) ELSE NoErr

\* Mutant of ServicesAfterStop: Stop keeps the registered services.
ServicesAfterStop_Kept == services

\* Stop, line 423: n.services = nil.
ServicesAfterStop == <<>>

\* Stop, lines 420-431: stop the p2p server, clear services and server, return.
StopDone(t) ==
    /\ UNCHANGED <<envVars, httpHosts>>
    /\ pc[t] = "Stop.services"
    /\ idx[t] > Len(services)
    /\ calls' = Append(calls, <<"p2p.Stop", server, TRUE>>)
    /\ p2pRunning' = P2PStop(server)
    /\ services' = ServicesAfterStop
    /\ server' = 0
    /\ Return(t, op[t], "Stop", StopResult(stopErr[t]))
    /\ UNCHANGED <<nextId, started, rpcLoops, httpLoops, op, entry>>

\* --------------------------------------------------------------- Restart
\* Restart, line 436: n.Stop().
CallRestart(t) ==
    /\ pc[t] = "idle"
    /\ op' = [op EXCEPT ![t] = "Restart"]
    /\ StopBegin(t, "Restart")

\* Restart, line 439: n.Start(), reached when Stop returned nil.
RestartStart(t) ==
    /\ pc[t] = "gap"
    /\ UNCHANGED op
    /\ StartBegin(t, "Restart")

\* ------------------------------------------------- the accept loop
\* startJSONRPC, lines 360-369: one turn of a raw-socket accept loop.  Accept
\* returns a connection, served in a goroutine of its own, or an error, which
\* is logged; either way the loop goes round again.
\* Mutant of LoopsAfterAccept: the loop returns on an Accept error.
LoopsAfterAccept_ExitOnError(ok) == IF ok THEN rpcLoops ELSE rpcLoops - 1

\* startJSONRPC, lines 362-367: the accept loops running after one Accept; on
\* an error the loop logs and continues, a connection is served in another
\* goroutine.
LoopsAfterAccept(ok) == rpcLoops

AcceptLoop ==
    /\ rpcLoops > 0
    /\ \E ok \in BOOLEAN :
           /\ accepted' = IF ok THEN "conn" ELSE "error"
           /\ rpcLoops' = LoopsAfterAccept(ok)
    /\ UNCHANGED <<server, services, lock, nextId, p2pRunning, started,
                   httpLoops, pc, op, running, idx, jdx, err, stopErr, stopRet,
                   protocols, handler, httpServer, conf, config, heap, httpHosts,
                   exclusive, calls, entry, last>>

\* ------------------------------------------------- the caller's Config
\* After New the caller writes a field of its Config struct.
ConfSetField ==
    /\ conf.RPCAddr = "rpc0"
    /\ conf' = [conf EXCEPT !.RPCAddr = "rpc1"]
    /\ UNCHANGED <<config, heap>>

\* After New the caller writes an element of conf.HTTPWhiteHost.
ConfSetElement ==
    /\ heap[conf.HTTPWhiteHost][1] # "host1"
    /\ heap' = [heap EXCEPT ![conf.HTTPWhiteHost] = <<"host1">>]
    /\ UNCHANGED <<conf, config>>

\* After New the caller assigns another slice to conf.HTTPWhiteHost.
ConfSetSlice ==
    /\ conf.HTTPWhiteHost = 1
    /\ conf' = [conf EXCEPT !.HTTPWhiteHost = 2]
    /\ UNCHANGED <<config, heap>>

\* The caller mutates its Config while the node lives.
ConfMutate ==
    /\ \/ ConfSetField
       \/ ConfSetElement
       \/ ConfSetSlice
    /\ UNCHANGED <<server, services, lock, nextId, p2pRunning, started, rpcLoops,
                   httpLoops, pc, op, running, idx, jdx, err, stopErr, stopRet,
                   protocols, handler, httpServer, httpHosts, exclusive, accepted,
                   calls, entry, last>>

\* One step of caller t.
Step(t) ==
    \/ \E s \in Svc : Register(t, s)
    \/ CallStart(t)
    \/ StartP2P(t)
    \/ StartService(t)
    \/ StartUndo(t)
    \/ StartJSONRPC(t)
    \/ StartHTTPRPC(t)
    \/ StartRPCUndo(t)
    \/ StartDone(t)
    \/ CallStop(t)
    \/ StopService(t)
    \/ StopDone(t)
    \/ CallRestart(t)
    \/ RestartStart(t)

Next == \E t \in Callers : Step(t)

Spec == Init /\ [][Next]_vars

\* The node on fixed listen addresses that admit one binding at a time.
SpecExclusive == InitExclusive /\ [][Next]_vars

\* The node driven by one caller, with its raw-socket accept loops taking
\* their turns.
NextAccept == Step(1) \/ AcceptLoop
SpecAccept == Init /\ [][NextAccept]_vars

\* The node driven by one caller, who goes on writing to the Config it passed
\* to New.
NextConf == Step(1) \/ ConfMutate
SpecConf == Init /\ [][NextConf]_vars

TypeOK ==
    /\ server \in 0..MaxStarts
    /\ Len(services) <= MaxServices
    /\ lock \in Callers \cup {0}

\* ----------------------------------------------------------------------
\* Properties.  `last` names the function that has just returned: while it
\* is set, no caller has entered Register, Start or Stop since, so the node
\* is as that function left it; `entry` is the node as the function found
\* it and `calls` the calls it made on the p2p server, the services and the
\* RPC layer.
\* ----------------------------------------------------------------------

\* The calls of a record without their results.
Targets(cs) == [k \in 1..Len(cs) |-> <<cs[k][1], cs[k][2]>>]
\* One call `name` on each service of svcs, in order.
OnEach(name, svcs) == [k \in 1..Len(svcs) |-> <<name, svcs[k]>>]
\* The p2p server the latest Start created.
Created == entry.nextId + 1
\* What a caller observes now, to compare with `entry`.
Observed == [Snapshot EXCEPT !.arg = entry.arg, !.undone = entry.undone]

\* Start ran from an Idle node and returned an error.
StartFailed == last.fn = "Start" /\ last.ret \notin {NoErr, ErrNodeRunning}

\* Every service that the latest function started has been stopped after it.
StartedThenStopped ==
    \A k \in 1..Len(calls) :
        (calls[k][1] = "svc.Start" /\ calls[k][3]) =>
            \E m \in (k + 1)..Len(calls) :
                calls[m][1] = "svc.Stop" /\ calls[m][2] = calls[k][2]

\* C1: whenever Start fails at the p2p server, at a service or at RPC
\* bootstrap, the node is Idle when it returns: n.server is nil, the p2p
\* server the call created is not running, and no registered service is left
\* started (each one the call started has been stopped).
C1_FailedStartLeavesIdle ==
    StartFailed =>
        /\ server = 0
        /\ Created \notin p2pRunning
        /\ p2pRunning = {}
        /\ \A k \in 1..Len(services) : services[k] \notin started
        /\ StartedThenStopped

\* C1 witness: Start failed at RPC bootstrap after starting two services.
C1_Witness ==
    /\ StartFailed
    /\ last.ret.kind \in {"RegisterErr", "ListenErr"}
    /\ Len(services) >= 2
    /\ \E k \in 1..Len(calls) : calls[k] = <<"svc.Start", services[2], TRUE>>

\* C2: when the Start of service i is the first to fail, Start has called, in
\* this order: the p2p server's Start, Start on s0..si (si failing), Stop once
\* on each of s0..si-1 in registration order, the p2p server's Stop once;
\* nothing else (no Start past si, no Stop of si, no RPC bootstrap), and it
\* returns the error of si itself.
C2_PartialStartRollback ==
    (last.fn = "Start" /\ last.ret.kind = "SvcStartErr") =>
        \E i \in 1..Len(services) :
            /\ last.ret = SvcStartErr(services[i])
            /\ Targets(calls) =
                   <<<<"p2p.Start", Created>>>>
                     \o OnEach("svc.Start", SubSeq(services, 1, i))
                     \o OnEach("svc.Stop", SubSeq(services, 1, i - 1))
                     \o <<<<"p2p.Stop", Created>>>>
            /\ \A k \in 1..i : calls[k][3]
            /\ ~calls[i + 1][3]
            /\ rpcLoops = entry.rpcLoops /\ httpLoops = entry.httpLoops
            /\ p2pRunning = {}

\* C2 witness: services A, B, C of which B fails to start.
C2_Witness ==
    /\ last.fn = "Start"
    /\ Len(services) = 3
    /\ Cardinality({services[k] : k \in 1..3}) = 3
    /\ last.ret = SvcStartErr(services[2])
    /\ Len(calls) = 5

\* C3: Stop on a Running node calls Stop once on every registered service in
\* registration order, whatever each returns, then stops the p2p server
\* once, clears the service list and the server and leaves the node Idle; it
\* returns nil iff no service failed to stop, otherwise a StopError.
C3_StopStopsEverything ==
    (last.fn = "Stop" /\ entry.server # 0) =>
        /\ Targets(calls) = OnEach("svc.Stop", entry.services)
                              \o <<<<"p2p.Stop", entry.server>>>>
        /\ services = <<>>
        /\ server = 0
        /\ p2pRunning = {}
        /\ started = {}
        /\ (last.ret = NoErr) <=> (\A k \in 1..Len(calls) : calls[k][3])
        /\ last.ret # NoErr => last.ret.kind = "StopError"

\* C3 witness: the first of three services failed to stop and the later ones
\* were stopped all the same.
C3_Witness ==
    /\ last.fn = "Stop"
    /\ Len(entry.services) = 3
    /\ Len(calls) = 4
    /\ ~calls[1][3] /\ calls[2][3] /\ calls[3][3]
    /\ server = 0

\* Stop ran on a Running node and has returned.
Stopped == last.fn = "Stop" /\ entry.server # 0
\* The entries of the StopError it returned (none if it returned nil).
Reported == IF last.ret.kind = "StopError" THEN last.ret.Services ELSE {}
\* Positions in `calls` of the service Stops that returned an error.
FailedStops == {k \in 1..Len(calls) : calls[k][1] = "svc.Stop" /\ ~calls[k][3]}
\* The services that failed to stop, and their types.
FailedServices == {calls[k][2] : k \in FailedStops}
FailedTypes == {TypeOf(s) : s \in FailedServices}
\* The last service of type ty that failed to stop.
LastFailed(ty) ==
    LET ks == {k \in FailedStops : TypeOf(calls[k][2]) = ty}
    IN calls[CHOOSE k \in ks : \A m \in ks : m <= k][2]

\* C4 as stated: the StopError has exactly one entry per service that failed
\* to stop, holding that service's error, also when several failing services
\* are instances of one type.
C4_OneEntryPerFailedService ==
    Stopped =>
        /\ Cardinality(Reported) = Cardinality(FailedServices)
        /\ {p[2] : p \in Reported} = {SvcStopErr(s) : s \in FailedServices}

\* C4 amended: the StopError has exactly one entry per service type of which
\* an instance failed to stop, keyed by that type and holding the error of
\* the last failing instance of the type in registration order; a type with
\* no failing instance has no entry.  When the failing services are of
\* pairwise different types this is one entry per failing service.
C4_OneEntryPerFailedType ==
    Stopped =>
        /\ Reported = {<<ty, SvcStopErr(LastFailed(ty))>> : ty \in FailedTypes}
        /\ (Cardinality(FailedTypes) = Cardinality(FailedServices)) =>
               /\ Cardinality(Reported) = Cardinality(FailedServices)
               /\ {p[2] : p \in Reported} = {SvcStopErr(s) : s \in FailedServices}

\* C4 witness: two instances of one type both failed to stop and the
\* StopError holds a single entry.
C4_Witness ==
    /\ Stopped
    /\ Cardinality(FailedServices) = 2
    /\ Cardinality(FailedTypes) = 1
    /\ Cardinality(Reported) = 1

\* C5: Register on a Running node returns ErrNodeRunning and leaves the
\* service list as it was; on an Idle node it returns nil and the list is the
\* old list with the service appended.  Either way nothing else changes and
\* no call is made on a service, the p2p server or the RPC layer.
C5_RegisterLockout ==
    last.fn = "Register" =>
        /\ entry.server # 0 =>
               last.ret = ErrNodeRunning /\ services = entry.services
        /\ entry.server = 0 =>
               last.ret = NoErr /\ services = Append(entry.services, entry.arg)
        /\ calls = <<>>
        /\ [Observed EXCEPT !.services = entry.services] = entry

\* C5 witness: Register was refused on a Running node that has services.
C5_Witness ==
    /\ last.fn = "Register"
    /\ last.ret = ErrNodeRunning
    /\ server # 0
    /\ Len(services) >= 2

\* C6: Start on a Running node returns ErrNodeRunning and changes nothing:
\* the server, the service list, the p2p servers created and running, the
\* started services and the RPC loops are as before, and no call is made.
C6_NoDoubleStart ==
    (last.fn = "Start" /\ entry.server # 0) =>
        /\ last.ret = ErrNodeRunning
        /\ Observed = entry
        /\ calls = <<>>

\* C6 witness: a second Start was refused on a node running two services.
C6_Witness ==
    /\ last.fn = "Start"
    /\ last.op = "Start"
    /\ last.ret = ErrNodeRunning
    /\ Len(services) >= 2
    /\ p2pRunning = {server}

\* C7: Stop on an Idle node returns ErrNodeStopped, calls Stop on no service
\* and not on the p2p server, and leaves the service list as it was.
C7_StopWhenIdle ==
    (last.fn = "Stop" /\ entry.server = 0) =>
        /\ last.ret = ErrNodeStopped
        /\ calls = <<>>
        /\ Observed = entry

\* C7 witness: Stop was refused on an Idle node with registered services.
C7_Witness ==
    /\ last.fn = "Stop"
    /\ last.ret = ErrNodeStopped
    /\ Len(services) >= 2
    /\ started = {}

\* A caller is inside the body of Register, Start or Stop.
InBody(t) == pc[t] \notin {"idle", "gap"}

\* The node is Running: exactly one p2p server has been started and not
\* stopped, and every registered service has been started and not stopped.
IsRunning ==
    /\ Cardinality(p2pRunning) = 1
    /\ \A k \in 1..Len(services) : services[k] \in started

\* C8: whenever no lifecycle operation holds the lock, n.server is set iff
\* the node is Running, the p2p server running is then the one n.server
\* names, and when n.server is nil no p2p server of the node is running.
C8_ServerIffRunning ==
    lock = 0 =>
        /\ (server # 0) <=> IsRunning
        /\ server # 0 => p2pRunning = {server}
        /\ server = 0 => p2pRunning = {}

\* C8 witness: the node runs two services on the second p2p server it made.
C8_Witness ==
    /\ lock = 0
    /\ server = 2
    /\ Len(services) >= 2
    /\ IsRunning

C10_RestartComposition ==
    last.op = "Restart" =>
        /\ (last.fn = "Stop" /\ last.ret # NoErr) =>
               last.final /\ pc[last.t] = "idle"
        /\ (last.fn = "Stop" /\ last.ret = NoErr) =>
               ~last.final /\ pc[last.t] = "gap"
        /\ last.fn = "Start" =>
               last.final /\ last.prev = NoErr /\ pc[last.t] = "idle"
        /\ last.fn \in {"Stop", "Start"}

\* C10 witness: Restart returned the StopError of its Stop without calling
\* Start.
C10_Witness ==
    /\ last.op = "Restart"
    /\ last.final
    /\ last.fn = "Stop"
    /\ last.ret.kind = "StopError"
    /\ server = 0

\* A caller is inside the body of Start.
InStart(t) == pc[t] \in {"Start.p2p", "Start.services", "Start.undo", "Start.rpc",
                         "Start.http", "Start.rpcundo", "Start.done"}
\* The namespaces of the aggregate API set of the registered services.
AllNamespaces == {NamespaceOf(services[k]) : k \in 1..Len(services)}
\* The Start in progress has spawned its raw-socket accept loop.
RawLoopSpawned == rpcLoops > entry.rpcLoops
\* The Start in progress has spawned its HTTP server loop.
HTTPLoopSpawned == httpLoops > entry.httpLoops

\* C11 as stated: during Start the raw-socket accept loop does not run
\* before every namespace is registered on the HTTP RPC server too.
C11_NoAcceptBeforeBothRegistered ==
    \A t \in Callers :
        (InStart(t) /\ RawLoopSpawned) => AllNamespaces \subseteq httpServer[t]

\* C11 amended: during Start each RPC listener begins accepting only after
\* every namespace of the aggregate API set is registered on its own
\* handler: the raw-socket loop after the raw-socket handler is complete, the
\* HTTP loop after the HTTP server is complete.  The raw-socket loop is
\* spawned before anything is registered on the HTTP server.
C11_AcceptAfterOwnRegistration ==
    \A t \in Callers :
        /\ (InStart(t) /\ RawLoopSpawned) => handler[t] = AllNamespaces
        /\ (InStart(t) /\ HTTPLoopSpawned) => httpServer[t] = AllNamespaces
        /\ pc[t] = "Start.http" => (RawLoopSpawned /\ httpServer[t] = {})

\* C11 witness: the raw-socket loop of a node with two services runs and
\* nothing is registered on the HTTP server yet.
C11_Witness ==
    \E t \in Callers :
        /\ pc[t] = "Start.http"
        /\ RawLoopSpawned
        /\ Cardinality(handler[t]) = 2
        /\ httpServer[t] = {}

\* C12: when HTTP RPC bootstrap fails after the raw-socket listener was bound
\* and its accept loop spawned, Start has unwound everything when it returns:
\* services and p2p server stopped, and the raw-socket loop it spawned is no
\* longer running.
C12_FailedHTTPClosesRawListener ==
    (last.fn = "Start" /\ last.ret = ListenErr("HTTPAddr")) =>
        /\ server = 0
        /\ p2pRunning = {}
        /\ \A k \in 1..Len(services) : services[k] \notin started
        /\ rpcLoops = entry.rpcLoops

\* Two registered services declare the same namespace.
DuplicateNamespace ==
    \E h, k \in 1..Len(services) :
        h # k /\ NamespaceOf(services[h]) = NamespaceOf(services[k])

\* C13: with two registered services declaring the same namespace, a Start
\* that gets as far as RPC bootstrap fails with the registration error,
\* having started every service; it then calls Stop once on every service
\* and once on the p2p server, has bound no RPC listener, and leaves the
\* node Idle.  A Start that succeeds had no duplicate namespace.
C13_DuplicateNamespaceRollsBack ==
    /\ (last.fn = "Start" /\ last.ret.kind = "RegisterErr") =>
           /\ DuplicateNamespace
           /\ Targets(calls) =
                  <<<<"p2p.Start", Created>>>>
                    \o OnEach("svc.Start", services)
                    \o <<<<"rpc.RegisterName",
                          services[CHOOSE k \in 1..Len(services) :
                              /\ \E h \in 1..(k - 1) :
                                     NamespaceOf(services[h]) = NamespaceOf(services[k])
                              /\ \A m \in 1..(k - 1) : \A h \in 1..(m - 1) :
                                     NamespaceOf(services[h]) # NamespaceOf(services[m])]>>>>
                    \o OnEach("svc.Stop", services)
                    \o <<<<"p2p.Stop", Created>>>>
           /\ \A k \in 1..(Len(services) + 1) : calls[k][3]
           /\ rpcLoops = entry.rpcLoops /\ httpLoops = entry.httpLoops
           /\ server = 0
           /\ p2pRunning = {}
           /\ \A k \in 1..Len(services) : services[k] \notin started
    /\ (last.fn = "Start" /\ last.ret = NoErr) => ~DuplicateNamespace
    /\ \A t \in Callers :
           (pc[t] \in {"Start.http", "Start.done"}) => ~DuplicateNamespace

\* C13 witness: Start of three services, two with the same namespace, failed
\* with the registration error.
C13_Witness ==
    /\ last.fn = "Start"
    /\ last.ret.kind = "RegisterErr"
    /\ Len(services) = 3
    /\ Len(calls) = 9

\* C14: when the p2p server fails to start, Start returns
\* ErrServiceStartFailed, not the server's own error, having called nothing
\* but the server's Start: no service is started or stopped, no RPC listener
\* is bound, and the node is Idle with its service list unchanged.
C14_TransportFailure ==
    (last.fn = "Start" /\ Len(calls) >= 1 /\ ~calls[1][3]) =>
        /\ last.ret = ErrServiceStartFailed
        /\ Targets(calls) = <<<<"p2p.Start", Created>>>>
        /\ server = 0
        /\ [Observed EXCEPT !.nextId = entry.nextId] = entry

\* C14 witness: the p2p server of a node with two services failed to start.
C14_Witness ==
    /\ last.fn = "Start"
    /\ last.ret = ErrServiceStartFailed
    /\ Len(services) >= 2
    /\ calls = <<<<"p2p.Start", Created, FALSE>>>>

\* ------------------------------------------------- C15
\* What a Config says, its slices read through to their elements.
ConfigView(c) ==
    [RPCAddr |-> c.RPCAddr, HTTPWhiteHost |-> heap[c.HTTPWhiteHost]]

\* What the caller's Config said when New was called.
ViewAtNew ==
    [RPCAddr |-> CallerConfig.RPCAddr,
     HTTPWhiteHost |-> CallerHeap[CallerConfig.HTTPWhiteHost]]

\* C15: whatever the caller writes to its Config after New, the node's config
\* goes on saying what the Config said at New, and every HTTP server a Start
\* creates is given the whitehosts of that time.
C15_ConfigDeepCopied ==
    /\ ConfigView(config) = ViewAtNew
    /\ httpHosts \in {<<>>, ViewAtNew.HTTPWhiteHost}

\* ------------------------------------------------- C16
\* How many protocols the first k registered services have between them.
RECURSIVE ProtocolsBefore(_)
ProtocolsBefore(k) ==
    IF k = 0 THEN 0 ELSE ProtocolsBefore(k - 1) + Len(Protocols(services[k]))

\* ps holds the protocol list of each registered service, one list after the
\* other in registration order, and nothing else.
InRegistrationOrder(ps) ==
    /\ Len(ps) = ProtocolsBefore(Len(services))
    /\ \A k \in 1..Len(services) :
           SubSeq(ps, ProtocolsBefore(k - 1) + 1, ProtocolsBefore(k))
               = Protocols(services[k])

\* The calls that belong to the RPC bootstrap.
RPCCalls == {"rpc.RegisterName", "rpc.Listen", "http.RegisterName", "http.Listen"}

\* C16: in a Start that got past the running check, the p2p server is
\* configured with the services' protocol lists concatenated in registration
\* order and its Start is the first call made; a service is started only on
\* the started p2p server, as the k-th after the first k-1 registered services
\* started successfully; and the RPC bootstrap makes a call only after every
\* registered service has been started successfully.
C16_StartOrdering ==
    \A t \in Callers : InStart(t) =>
        /\ InRegistrationOrder(protocols[t])
        /\ (pc[t] = "Start.services" /\ idx[t] <= Len(services)) =>
               running[t] \in p2pRunning
        /\ \A i \in 1..Len(calls) :
               /\ (i = 1) <=> (calls[i][1] = "p2p.Start")
               /\ calls[i][1] = "p2p.Start" => calls[i][2] = running[t]
               /\ calls[i][1] = "svc.Start" =>
                      /\ i - 1 \in 1..Len(services)
                      /\ calls[i][2] = services[i - 1]
                      /\ \A j \in 1..(i - 1) : calls[j][3]
               /\ calls[i][1] \in RPCCalls =>
                      /\ i > Len(services) + 1
                      /\ \A k \in 1..Len(services) :
                             calls[k + 1] = <<"svc.Start", services[k], TRUE>>

\* C16 witness: a Start of three services, two of them with protocols, has
\* started all three and is in the RPC bootstrap.
C16_Witness ==
    \E t \in Callers :
        /\ pc[t] = "Start.http"
        /\ services = <<2, 3, 1>>
        /\ protocols[t] = <<"p2", "p1a", "p1b">>
        /\ Len(calls) = 5

\* ------------------------------------------------- C17
\* C17: a Stop of a Running node returns with every raw-socket accept loop
\* and every HTTP server loop that ran when it was called still running,
\* those of the Start that made the node Running among them; and no step of
\* the node or of an accept loop, an Accept that returned an error included,
\* ends a loop.
C17_StopLeavesLoopsRunning ==
    /\ [](last.fn = "Stop" /\ entry.server # 0 =>
               rpcLoops = entry.rpcLoops /\ httpLoops = entry.httpLoops
                   /\ rpcLoops > 0 /\ httpLoops > 0)
    /\ [](accepted = "error" => rpcLoops > 0)
    /\ [][rpcLoops' >= rpcLoops /\ httpLoops' >= httpLoops]_vars

\* C17 witness: Stop of a Running node has returned without error and after
\* it an Accept of the raw-socket loop returned an error.
C17_Witness ==
    /\ last.fn = "Stop"
    /\ last.ret = NoErr
    /\ entry.server # 0
    /\ Len(entry.services) >= 1
    /\ server = 0
    /\ accepted = "error"
    /\ rpcLoops = 1
    /\ httpLoops = 1

\* ------------------------------------------------- C18
\* The latest function is the Start of a Restart and it returned nil.
RestartSucceeded == last.op = "Restart" /\ last.fn = "Start" /\ last.ret = NoErr

C19_FailedStartKeepsServices ==
    /\ StartFailed => services = entry.services
    /\ StartFailed => \A k \in 1..Len(RolledBack) : RolledBack[k] = services[k]
    /\ \A t \in Callers : InStart(t) =>
           /\ Len(entry.undone) <= Len(services)
           /\ \A k \in 1..Len(entry.undone) :
                  /\ services[k] = entry.undone[k]
                  /\ (Len(calls) >= k + 1 /\ \A j \in 1..k : calls[j][3]) =>
                         calls[k + 1][1] = "svc.Start"
                             /\ calls[k + 1][2] = entry.undone[k]
                  /\ pc[t] \in {"Start.rpc", "Start.http", "Start.done"} =>
                         calls[k + 1] = <<"svc.Start", entry.undone[k], TRUE>>

\* C19 witness: a Start that follows a failed Start has started again the two
\* services that the failed attempt had started and rolled back.
C19_Witness ==
    \E t \in Callers :
        /\ pc[t] = "Start.rpc"
        /\ Len(entry.undone) = 2
        /\ Len(services) = 3
        /\ \A k \in 1..2 : calls[k + 1] = <<"svc.Start", entry.undone[k], TRUE>>
        /\ \A k \in 1..2 : entry.undone[k] \in started

\* ------------------------------------------------- C20
\* The latest function is a Start entered when a raw-socket listener of the
\* node already held the RPC address.
StartAfterBinding == last.fn = "Start" /\ entry.rpcLoops > 0

\* The latest function is the Start of a Restart, whose Stop stopped the
\* Running node.
RestartOfRunning == last.op = "Restart" /\ last.fn = "Start"

\* C20 as stated, on addresses that admit one binding: once a Start has bound
\* the raw-socket address, every later Start fails at raw-socket binding and
\* leaves the node Idle, and a Restart of a Running node returns an error
\* with the node Idle and its service list empty.
C20_LaterStartFailsAtBinding ==
    /\ StartAfterBinding => (last.ret = ListenErr("RPCAddr") /\ server = 0)
    /\ RestartOfRunning =>
           (last.ret # NoErr /\ server = 0 /\ services = <<>>)

\* C20 amended, on addresses that admit one binding: the raw-socket address
\* is bound at most once; a Start entered after it was bound returns an error
\* without a listener bound, ErrNodeRunning on a Running node and otherwise
\* the first failure it meets, which is that of the raw-socket binding at the
\* latest, leaving the node Idle; only a Start entered before any binding
\* returns nil; and a Restart of a Running node returns an error with the
\* node Idle and the service list as its Start found it.
C20_BoundOnceRunningOnce ==
    /\ rpcLoops <= 1
    /\ httpLoops <= rpcLoops
    /\ StartAfterBinding =>
           /\ last.ret # NoErr
           /\ (entry.server # 0) <=> (last.ret = ErrNodeRunning)
           /\ server = entry.server
           /\ \A k \in 1..Len(calls) :
                  /\ calls[k][1] \notin {"http.RegisterName", "http.Listen"}
                  /\ calls[k][1] = "rpc.Listen" => ~calls[k][3]
           /\ entry.server = 0 =>
                  [Observed EXCEPT !.nextId = entry.nextId] = entry
    /\ (last.fn = "Start" /\ last.ret = NoErr) => entry.rpcLoops = 0
    /\ RestartOfRunning =>
           /\ entry.rpcLoops = 1
           /\ last.ret \notin {NoErr, ErrNodeRunning}
           /\ server = 0
           /\ p2pRunning = {}
           /\ services = entry.services

\* C20 witness: the Start of a Restart of a Running node got as far as the
\* raw-socket binding and failed there; the node is Idle with no service.
C20_Witness ==
    /\ exclusive
    /\ RestartOfRunning
    /\ last.ret = ListenErr("RPCAddr")
    /\ calls[Len(calls)] = <<"p2p.Stop", Created, TRUE>>
    /\ server = 0
    /\ services = <<>>
    /\ rpcLoops = 1
    /\ httpLoops = 1

====
